---- MODULE Spec2Model ----
(***************************************************************************)
(* Padding-oracle attack library goracler: the Decrypt and Encrypt drivers, *)
(* the byte-recovery engine decryptBlock, its pool of oracleWorker          *)
(* goroutines and the pad-candidate builder buildPad, together with the     *)
(* CBC / PKCS5 helpers of package crypto that the honest oracle wraps.      *)
(*                                                                         *)
(* Byte strings are sequences; the Go index i is the sequence index i+1.    *)
(* A byte is a number in 0..ByteMod-1 and every XOR is bitwise.             *)
(***************************************************************************)
EXTENDS Integers, Sequences, FiniteSets, Bags, TLC

\* Width of a byte in bits (8 in the program).
ByteBits == 2

\* CipherBlockLen: the block length in bytes (16 in the program).
CipherBlockLen == 2

\* MaxGoroutines: the number of workers started per byte position (20 in the
\* program).
MaxGoroutines == 2

ByteMod == 2 ^ ByteBits

Bytes == 0 .. (ByteMod - 1)

Nil == "nil"

ErrInvalidCiphertext == "invalid ciphertext"

ErrNoByteFound == "no byte found after a valid attempt"

ErrInvalidPad == "error invalid pad"

\* The errors a failing oracle may hand back from Do; they are taken to be
\* other values than the errors the library makes itself.
OracleErrs == {"oracle error A", "oracle error B"}

At(s, i) == s[i + 1]

\* Go's ^ on two bytes.
RECURSIVE XOR(_, _)
XOR(a, b) ==
  IF a = 0 THEN b
  ELSE IF b = 0 THEN a
  ELSE ((a + b) % 2) + 2 * XOR(a \div 2, b \div 2)

\* make([]byte, n): n zero bytes, built as a sequence.
RECURSIVE Zeros(_)
Zeros(n) == IF n = 0 THEN <<>> ELSE <<0>> \o Zeros(n - 1)

Blocks == [1 .. CipherBlockLen -> Bytes]

\* crypto.BlockXOR
BlockXOR(block, key) ==
  [i \in 1 .. Len(block) |-> XOR(block[i], At(key, (i - 1) % Len(key)))]

\* crypto.PCKCS5Pad (the program's literal 16 is the block length)
PCKCS5Pad(m) ==
  LET r == CipherBlockLen - (Len(m) % CipherBlockLen)
  IN  m \o [i \in 1 .. r |-> r]

\* The loop of crypto.DecryptRemovePCKCS5Pad: j bytes still to strip, each
\* compared with byte(p).
RECURSIVE StripPad(_, _, _)
StripPad(m, p, j) ==
  IF j = 0 THEN [m |-> m, err |-> Nil]
  ELSE IF m[Len(m)] # p THEN [m |-> <<>>, err |-> ErrInvalidPad]
  ELSE StripPad(SubSeq(m, 1, Len(m) - 1), p, j - 1)

\* A pad check that looks at the last byte only.
DecryptRemovePCKCS5PadLastByte(m) ==
  LET p == m[Len(m)]
  IN  IF p > CipherBlockLen \/ p < 1
      THEN [m |-> <<>>, err |-> ErrInvalidPad]
      ELSE [m |-> SubSeq(m, 1, Len(m) - p), err |-> Nil]

\* crypto.DecryptRemovePCKCS5Pad
DecryptRemovePCKCS5Pad(m) ==
  LET p == m[Len(m)]
  IN  IF p > CipherBlockLen \/ p < 1
      THEN [m |-> <<>>, err |-> ErrInvalidPad]
      ELSE StripPad(m, p, p)

\* The block cipher of crypto/aes, abstracted as a keyed permutation of the
\* blocks: a byte substitution after the key is mixed in.
SubByte(b) == (b + 1) % ByteMod

InvSubByte(b) == (b + ByteMod - 1) % ByteMod

AESEncrypt(k, x) == [i \in 1 .. CipherBlockLen |-> SubByte(XOR(x[i], k[i]))]

AESDecrypt(k, c) == [i \in 1 .. CipherBlockLen |-> XOR(InvSubByte(c[i]), k[i])]

\* The loop of crypto.CBCEncrypt over the padded message m from block i on.
RECURSIVE CBCEncryptLoop(_, _, _, _)
CBCEncryptLoop(k, prev, m, i) ==
  IF i >= Len(m) \div CipherBlockLen THEN <<>>
  ELSE LET b == SubSeq(m, i * CipherBlockLen + 1, i * CipherBlockLen + CipherBlockLen)
           x == AESEncrypt(k, BlockXOR(b, prev))
       IN  x \o CBCEncryptLoop(k, x, m, i + 1)

\* crypto.CBCEncrypt: iv || ciphertext of the padded message.
CBCEncrypt(iv, k, msg) == iv \o CBCEncryptLoop(k, iv, PCKCS5Pad(msg), 0)

\* The loop of crypto.CBCDecrypt over the blocks c from block i on.
RECURSIVE CBCDecryptLoop(_, _, _, _)
CBCDecryptLoop(k, prev, c, i) ==
  IF i >= Len(c) \div CipherBlockLen THEN <<>>
  ELSE LET ci == SubSeq(c, i * CipherBlockLen + 1, i * CipherBlockLen + CipherBlockLen)
       IN  BlockXOR(AESDecrypt(k, ci), prev) \o CBCDecryptLoop(k, ci, c, i + 1)

\* crypto.CBCDecrypt of iv || c: the message with its pad removed, or
\* ErrInvalidPad.
CBCDecrypt(k, d) ==
  LET iv == SubSeq(d, 1, CipherBlockLen)
      c  == SubSeq(d, CipherBlockLen + 1, Len(d))
  IN  DecryptRemovePCKCS5Pad(CBCDecryptLoop(k, iv, c, 0))

\* testOracle.Do: 1 when the pad of the decryption is valid, 0 when not.
Do(k, c) == IF CBCDecrypt(k, c).err = ErrInvalidPad THEN 0 ELSE 1

\* The loop of buildPad from index i down to 0, fill bytes still to craft.
RECURSIVE buildPadLoop(_, _, _, _, _, _, _)
buildPadLoop(p, g, c, m, rg, i, fill) ==
  IF i < 0 THEN rg
  ELSE IF fill < 1
       THEN buildPadLoop(p, g, c, m, [rg EXCEPT ![i + 1] = At(c, i)], i - 1, fill)
       ELSE LET pad == CipherBlockLen - p
                v   == IF p = i THEN g ELSE XOR(XOR(pad, At(m, i)), At(c, i))
            IN  buildPadLoop(p, g, c, m, [rg EXCEPT ![i + 1] = v], i - 1, fill - 1)

\* A builder whose fill count is one short.
buildPadShort(p, g, c, m) ==
  buildPadLoop(p, g, c, m, Zeros(CipherBlockLen), CipherBlockLen - 1,
               CipherBlockLen - p - 1)

\* buildPad
buildPad(p, g, c, m) ==
  buildPadLoop(p, g, c, m, Zeros(CipherBlockLen), CipherBlockLen - 1,
               CipherBlockLen - p)

\* The values channel filled without the exclusion at the last position.
GuessChannelAll(prv, p) == [n \in 1 .. ByteMod |-> n - 1]

\* The guesses decryptBlock pushes into the values channel for position p,
\* in channel order.
GuessChannel(prv, p) ==
  SelectSeq([n \in 1 .. ByteMod |-> n - 1],
            LAMBDA g : ~(g = At(prv, p) /\ p = CipherBlockLen - 1))

\* The loop over done when an error is returned only if no guess was read
\* before it.
RECURSIVE RangeDoneGuessFirst(_, _, _, _)
RangeDoneGuessFirst(d, k, val, found) ==
  IF k > Len(d) THEN [err |-> Nil, val |-> val, found |-> found]
  ELSE IF d[k].Err # Nil /\ ~found
       THEN [err |-> d[k].Err, val |-> val, found |-> found]
  ELSE IF d[k].Err # Nil THEN RangeDoneGuessFirst(d, k + 1, val, found)
  ELSE RangeDoneGuessFirst(d, k + 1, d[k].Res, TRUE)

\* The loop over done when the first result read is kept.
RECURSIVE RangeDoneFirstWins(_, _, _, _)
RangeDoneFirstWins(d, k, val, found) ==
  IF k > Len(d) THEN [err |-> Nil, val |-> val, found |-> found]
  ELSE IF d[k].Err # Nil THEN [err |-> d[k].Err, val |-> val, found |-> found]
  ELSE RangeDoneFirstWins(d, k + 1, IF found THEN val ELSE d[k].Res, TRUE)

\* The loop "for res := range done" of decryptBlock from entry k on: the
\* first error ends it, otherwise val is the last result read.
RECURSIVE RangeDone(_, _, _, _)
RangeDone(d, k, val, found) ==
  IF k > Len(d) THEN [err |-> Nil, val |-> val, found |-> found]
  ELSE IF d[k].Err # Nil THEN [err |-> d[k].Err, val |-> val, found |-> found]
  ELSE RangeDone(d, k + 1, d[k].Res, TRUE)

\* A wait that returns while one worker is still running.
WaitReturnsEarly(n) == n <= 1

\* wg.Wait() returns when the WaitGroup counter is zero.
WaitReturns(n) == n = 0

\* Decrypt's length check without the test of the remainder.
InvalidCiphertextNoRemainder(c) == Len(c) \div CipherBlockLen < 2

\* Decrypt's length check.
InvalidCiphertext(c) ==
  Len(c) \div CipherBlockLen < 2 \/ Len(c) % CipherBlockLen # 0

\* The slice of block k of a byte string.
BlockOf(c, k) == SubSeq(c, CipherBlockLen * k + 1, CipherBlockLen * k + CipherBlockLen)

(***************************************************************************)
(* Inputs.                                                                 *)
(***************************************************************************)
\* Longest message handed to CBCEncrypt or Encrypt.
MaxMsgLen == 2

\* The bytes of a message: the pad values 1 and 2, and a byte that is no pad.
MsgBytes == {0, 1, 2}

Msgs == UNION {[1 .. n -> MsgBytes] : n \in 0 .. MaxMsgLen}

\* The messages attacked through an oracle that may fail.
FaultyMsgs == UNION {[1 .. n -> {1, 2}] : n \in 0 .. MaxMsgLen}

\* The messages attacked through the oracle o.
MsgsFor(o) == IF o.faulty THEN FaultyMsgs ELSE Msgs

\* Four keys; under the key whose bytes are all ByteMod-2 the decryption of
\* the zero block is all ones.
Keys ==
  {[n \in 1 .. CipherBlockLen |-> (a * n + b) % ByteMod] :
     a \in {0, 1}, b \in {0, ByteMod - 2}}

IVs == {Zeros(CipherBlockLen), [n \in 1 .. CipherBlockLen |-> n % ByteMod]}

\* The oracles: every key with a Do that never fails, and one key with a Do
\* that may fail.
Oracles ==
  [key : Keys, faulty : {FALSE}] \cup [key : {Zeros(CipherBlockLen)}, faulty : {TRUE}]

\* Byte strings whose length Decrypt rejects.
Malformed ==
  {Zeros(n) : n \in {l \in 0 .. (3 * CipherBlockLen + 1) :
                       l < 2 * CipherBlockLen \/ l % CipherBlockLen # 0}}

DecryptArgs(o) ==
  {CBCEncrypt(iv, o.key, msg) :
     iv \in IF o.faulty THEN {Zeros(CipherBlockLen)} ELSE IVs,
     msg \in MsgsFor(o)}
    \cup Malformed

(***************************************************************************)
(* State.                                                                  *)
(***************************************************************************)
VARIABLES
  op,         \* the operation called: "Decrypt" or "Encrypt"
  arg,        \* its argument: the ciphertext c, or the text txt
  oracle,     \* the Poracle q: its key, and whether Do may fail
  pc,         \* the caller's thread: "start", "pool" (in wg.Wait), "done"
  i,          \* the block loop index of Decrypt / Encrypt
  m,          \* Decrypt's m
  ct,         \* Encrypt's c
  prev,       \* decryptBlock's prev
  current,    \* decryptBlock's current
  mi,         \* decryptBlock's mi
  p,          \* decryptBlock's p
  values,     \* the values channel (closed once filled)
  cancelled,  \* whether ctx has been cancelled
  done,       \* the done channel
  workers,    \* the bag of live oracleWorker goroutines
  wg,         \* the WaitGroup counter
  ret,        \* what the operation returned
  queried,    \* history: some oracle query has been issued
  written,    \* history: the positions of mi written so far in this block
  oerrs,      \* history: the errors the oracle has returned
  errAt,      \* history: <<i, p>> of the first error the oracle returned
  taken,      \* history: the number of guesses received from values
  first       \* the results of the caller's earlier calls with the same input

vars ==
  <<op, arg, oracle, pc, i, m, ct, prev, current, mi, p, values, cancelled,
    done, workers, wg, ret, queried, written, oerrs, errAt, taken, first>>

callVars == <<op, arg, oracle, first>>

blockVars == <<prev, current, mi, p, written>>

poolVars == <<values, cancelled, done, workers, wg, taken>>

histVars == <<queried, oerrs, errAt>>

Idle == [pc |-> "select", p |-> 0, g |-> 0, try |-> <<>>]

NoRet == [val |-> <<>>, err |-> Nil]

Init ==
  /\ oracle \in Oracles
  /\ \/ op = "Decrypt" /\ arg \in DecryptArgs(oracle)
     \/ op = "Encrypt" /\ arg \in MsgsFor(oracle)
  /\ pc = "start"
  /\ i = 0
  /\ m = <<>>
  /\ ct = <<>>
  /\ prev = <<>>
  /\ current = <<>>
  /\ mi = <<>>
  /\ p = 0
  /\ values = <<>>
  /\ cancelled = FALSE
  /\ done = <<>>
  /\ workers = EmptyBag
  /\ wg = 0
  /\ ret = NoRet
  /\ queried = FALSE
  /\ written = {}
  /\ oerrs = {}
  /\ errAt = Nil
  /\ taken = 0
  /\ first = <<>>

(***************************************************************************)
(* decryptBlock, up to wg.Wait().                                          *)
(***************************************************************************)
\* The goroutines that are still running when new ones are started.
Running(ws) == ws

\* A loop over p that starts one position too far to the left.
FirstPositionLeft == CipherBlockLen - 2

\* The position the loop over p starts with.
FirstPosition == CipherBlockLen - 1

\* One iteration of the loop over p up to wg.Wait(): fill and close values,
\* make ctx and done, start MaxGoroutines workers.  The workers are created in
\* one step: a worker created late in the loop behaves as one that is slow to
\* reach its first select.
StartPool(pp, prv) ==
  /\ p' = pp
  /\ values' = GuessChannel(prv, pp)
  /\ cancelled' = FALSE
  /\ done' = <<>>
  /\ workers' = Running(workers) (+)
                 [w \in {[Idle EXCEPT !.p = pp]} |-> MaxGoroutines]
  /\ wg' = wg + MaxGoroutines
  /\ taken' = 0

\* Entry of decryptBlock(prv, cur) up to the first wg.Wait().
EnterBlock(prv, cur) ==
  /\ prev' = prv
  /\ current' = cur
  /\ mi' = Zeros(CipherBlockLen)
  /\ written' = {}
  /\ StartPool(FirstPosition, prv)

\* The operation returns r.
Return(r) ==
  /\ pc' = "done"
  /\ ret' = r

(***************************************************************************)
(* The calls.                                                              *)
(***************************************************************************)
\* Decrypt(c, q, l) on a malformed c.
DecryptReject ==
  /\ pc = "start" /\ op = "Decrypt"
  /\ InvalidCiphertext(arg)
  /\ Return([val |-> <<>>, err |-> ErrInvalidCiphertext])
  /\ UNCHANGED <<callVars, i, m, ct, blockVars, poolVars, histVars>>

\* Decrypt(c, q, l) up to the first wg.Wait().
DecryptCall ==
  /\ pc = "start" /\ op = "Decrypt"
  /\ ~InvalidCiphertext(arg)
  /\ i' = 1
  /\ m' = <<>>
  /\ EnterBlock(BlockOf(arg, 0), BlockOf(arg, 1))
  /\ pc' = "pool"
  /\ UNCHANGED <<callVars, ct, ret, histVars>>

\* Encrypt(txt, q, l) up to the first wg.Wait(); n >= 1 for every txt.
EncryptCall ==
  /\ pc = "start" /\ op = "Encrypt"
  /\ i' = Len(PCKCS5Pad(arg)) \div CipherBlockLen - 1
  /\ ct' = Zeros(CipherBlockLen)
  /\ EnterBlock(Zeros(CipherBlockLen), Zeros(CipherBlockLen))
  /\ pc' = "pool"
  /\ UNCHANGED <<callVars, m, ret, histVars>>

(***************************************************************************)
(* oracleWorker.checkValuePad.                                             *)
(***************************************************************************)
\* A worker that returns without wg.Done().
ExitWithoutDone(w) ==
  /\ workers' = workers (-) SetToBag({w})
  /\ wg' = wg

\* The worker returns: the deferred wg.Done() runs.
Exit(w) ==
  /\ workers' = workers (-) SetToBag({w})
  /\ wg' = wg - 1

\* The capacity of the done channel (256 in the program, one slot per byte
\* value); a send blocks while the channel is full.
DoneCap == ByteMod

Become(w, v) == workers' = (workers (-) SetToBag({w})) (+) SetToBag({v})

\* A select whose ctx.Done() case is ready before any cancellation.
CtxReadyAlways(c) == TRUE

\* Whether the select may take its ctx.Done() case.
CtxReady(c) == c

\* select takes the read case and gets a guess: build the candidate and
\* send it to the oracle.
RecvGuess ==
  \E w \in BagToSet(workers) :
    /\ w.pc = "select"
    /\ values # <<>>
    /\ values' = Tail(values)
    /\ Become(w, [pc |-> "query", p |-> w.p, g |-> Head(values),
                  try |-> buildPad(w.p, Head(values), prev, mi) \o current])
    /\ queried' = TRUE
    /\ taken' = taken + 1
    /\ UNCHANGED <<callVars, pc, i, m, ct, blockVars, cancelled, done, wg, ret,
                   oerrs, errAt>>

\* select takes the read case on the drained, closed channel: break LOOP.
RecvClosed ==
  \E w \in BagToSet(workers) :
    /\ w.pc = "select"
    /\ values = <<>>
    /\ Exit(w)
    /\ UNCHANGED <<callVars, pc, i, m, ct, blockVars, values, cancelled, done,
                   ret, histVars, taken>>

\* select takes the ctx.Done() case: break LOOP.
CtxDone ==
  \E w \in BagToSet(workers) :
    /\ w.pc = "select"
    /\ CtxReady(cancelled)
    /\ Exit(w)
    /\ UNCHANGED <<callVars, pc, i, m, ct, blockVars, values, cancelled, done,
                   ret, histVars, taken>>

\* Do returns without error and res = 0: back to the select.
ReplyInvalid ==
  \E w \in BagToSet(workers) :
    /\ w.pc = "query"
    /\ Do(oracle.key, w.try) = 0
    /\ Become(w, [Idle EXCEPT !.p = w.p])
    /\ UNCHANGED <<callVars, pc, i, m, ct, blockVars, values, cancelled, done,
                   wg, ret, histVars, taken>>

\* Do returns without error and res > 0: the guess is sent to done.
ReplyValid ==
  \E w \in BagToSet(workers) :
    /\ w.pc = "query"
    /\ Do(oracle.key, w.try) > 0
    /\ Len(done) < DoneCap
    /\ done' = Append(done, [Err |-> Nil, Res |-> w.g])
    /\ Become(w, [w EXCEPT !.pc = "cancel"])
    /\ UNCHANGED <<callVars, pc, i, m, ct, blockVars, values, cancelled, wg,
                   ret, histVars, taken>>

\* Do returns an error: the error is sent to done.
ReplyError ==
  \E w \in BagToSet(workers), e \in OracleErrs :
    /\ w.pc = "query"
    /\ oracle.faulty
    /\ Len(done) < DoneCap
    /\ done' = Append(done, [Err |-> e, Res |-> 0])
    /\ Become(w, [w EXCEPT !.pc = "cancel"])
    /\ oerrs' = oerrs \cup {e}
    /\ errAt' = IF errAt = Nil THEN <<i, w.p>> ELSE errAt
    /\ UNCHANGED <<callVars, pc, i, m, ct, blockVars, values, cancelled, wg,
                   ret, queried, taken>>

\* o.cancel(); break LOOP.
Cancel ==
  \E w \in BagToSet(workers) :
    /\ w.pc = "cancel"
    /\ cancelled' = TRUE
    /\ Exit(w)
    /\ UNCHANGED <<callVars, pc, i, m, ct, blockVars, values, done, ret,
                   histVars, taken>>

(***************************************************************************)
(* decryptBlock after wg.Wait(), and the caller's loop around it.          *)
(***************************************************************************)
Results == RangeDone(done, 1, 0, FALSE)

\* The byte decryptBlock stores in mi[p] for the guess val.
Recovered(val, prv, pp) == XOR(XOR(val, At(prv, pp)), CipherBlockLen - pp)

\* A store to mi[p] that clears the other entries.
NewMiAlone ==
  [q \in 1 .. CipherBlockLen |->
     IF q = p + 1 THEN Recovered(Results.val, prev, p) ELSE 0]

\* mi after the assignment to mi[p].
NewMi == [mi EXCEPT ![p + 1] = Recovered(Results.val, prev, p)]

\* A result of done carries an error: decryptBlock and the caller return it.
PoolError ==
  /\ pc = "pool" /\ WaitReturns(wg)
  /\ Results.err # Nil
  /\ Return([val |-> <<>>, err |-> Results.err])
  /\ UNCHANGED <<callVars, i, m, ct, blockVars, poolVars, histVars>>

\* done is empty: decryptBlock and the caller return the no-byte error.
PoolNoByte ==
  /\ pc = "pool" /\ WaitReturns(wg)
  /\ Results.err = Nil /\ ~Results.found
  /\ Return([val |-> <<>>, err |-> ErrNoByteFound])
  /\ UNCHANGED <<callVars, i, m, ct, blockVars, poolVars, histVars>>

\* mi[p] is stored and the loop goes on to position p - 1.
NextPosition ==
  /\ pc = "pool" /\ WaitReturns(wg)
  /\ Results.err = Nil /\ Results.found
  /\ p > 0
  /\ mi' = NewMi
  /\ written' = written \cup {p}
  /\ StartPool(p - 1, prev)
  /\ UNCHANGED <<callVars, pc, i, m, ct, prev, current, ret, histVars>>

\* mi[0] is stored, decryptBlock returns to Decrypt, which has a next block.
DecryptNextBlock ==
  /\ pc = "pool" /\ WaitReturns(wg) /\ op = "Decrypt"
  /\ Results.err = Nil /\ Results.found
  /\ p = 0
  /\ i + 1 < Len(arg) \div CipherBlockLen
  /\ m' = m \o NewMi
  /\ i' = i + 1
  /\ EnterBlock(BlockOf(arg, i), BlockOf(arg, i + 1))
  /\ UNCHANGED <<callVars, pc, ct, ret, histVars>>

\* mi[0] is stored, decryptBlock returns to Decrypt, which returns string(m).
DecryptReturn ==
  /\ pc = "pool" /\ WaitReturns(wg) /\ op = "Decrypt"
  /\ Results.err = Nil /\ Results.found
  /\ p = 0
  /\ ~(i + 1 < Len(arg) \div CipherBlockLen)
  /\ m' = m \o NewMi
  /\ mi' = NewMi
  /\ written' = written \cup {p}
  /\ Return([val |-> m \o NewMi, err |-> Nil])
  /\ UNCHANGED <<callVars, i, ct, prev, current, p, poolVars, histVars>>

\* A ti that is always the first block of the padded text.
TiFirst(k) == BlockOf(PCKCS5Pad(arg), 0)

\* The block ti of the padded text that Encrypt XORs with the engine output.
Ti(k) == BlockOf(PCKCS5Pad(arg), k)

\* mi[0] is stored, decryptBlock returns to Encrypt, which has a next block.
EncryptNextBlock ==
  /\ pc = "pool" /\ WaitReturns(wg) /\ op = "Encrypt"
  /\ Results.err = Nil /\ Results.found
  /\ p = 0
  /\ i - 1 >= 0
  /\ ct' = BlockXOR(Ti(i), NewMi) \o ct
  /\ i' = i - 1
  /\ EnterBlock(Zeros(CipherBlockLen), BlockXOR(Ti(i), NewMi))
  /\ UNCHANGED <<callVars, pc, m, ret, histVars>>

\* mi[0] is stored, decryptBlock returns to Encrypt, which returns c.
EncryptReturn ==
  /\ pc = "pool" /\ WaitReturns(wg) /\ op = "Encrypt"
  /\ Results.err = Nil /\ Results.found
  /\ p = 0
  /\ ~(i - 1 >= 0)
  /\ ct' = BlockXOR(Ti(i), NewMi) \o ct
  /\ mi' = NewMi
  /\ written' = written \cup {p}
  /\ Return([val |-> BlockXOR(Ti(i), NewMi) \o ct, err |-> Nil])
  /\ UNCHANGED <<callVars, i, m, prev, current, p, poolVars, histVars>>

\* The caller repeats a Decrypt that has returned, on the same ciphertext
\* and through the same oracle, an oracle that never fails.
DecryptAgain ==
  /\ pc = "done" /\ op = "Decrypt"
  /\ ~oracle.faulty
  /\ ~InvalidCiphertext(arg)
  /\ first = <<>>
  /\ first' = <<ret>>
  /\ i' = 1
  /\ m' = <<>>
  /\ EnterBlock(BlockOf(arg, 0), BlockOf(arg, 1))
  /\ pc' = "pool"
  /\ ret' = NoRet
  /\ UNCHANGED <<op, arg, oracle, ct, histVars>>

Next ==
  \/ DecryptReject
  \/ DecryptCall
  \/ EncryptCall
  \/ RecvGuess
  \/ RecvClosed
  \/ CtxDone
  \/ ReplyInvalid
  \/ ReplyValid
  \/ ReplyError
  \/ Cancel
  \/ PoolError
  \/ PoolNoByte
  \/ NextPosition
  \/ DecryptNextBlock
  \/ DecryptReturn
  \/ EncryptNextBlock
  \/ EncryptReturn

Spec == Init /\ [][Next]_vars

\* The same, with a caller that calls Decrypt a second time.
NextRepeat == Next \/ DecryptAgain

SpecRepeat == Init /\ [][NextRepeat]_vars

(***************************************************************************)
(* Properties.                                                             *)
(***************************************************************************)
Honest == ~oracle.faulty

Returned(o) == pc = "done" /\ op = o

\* The padded plaintext that was encrypted to the ciphertext c under key k.
PaddedPlain(k, c) ==
  CBCDecryptLoop(k, SubSeq(c, 1, CipherBlockLen),
                 SubSeq(c, CipherBlockLen + 1, Len(c)), 0)

\* The number of oracle queries in progress.
InFlight ==
  LET q == {w \in BagToSet(workers) : w.pc = "query"}
      RECURSIVE Sum(_)
      Sum(S) == IF S = {} THEN 0
                ELSE LET w == CHOOSE x \in S : TRUE
                     IN  CopiesIn(w, workers) + Sum(S \ {w})
  IN  Sum(q)

\* C1 (as claimed): through an honest oracle, Decrypt of IV || CBC_Encrypt(P)
\* returns no error and exactly PKCS_Pad(P), whatever the interleaving of the
\* workers.
C1_DecryptSoundness ==
  (Returned("Decrypt") /\ Honest /\ ~InvalidCiphertext(arg))
    => ret = [val |-> PaddedPlain(oracle.key, arg), err |-> Nil]

\* C2 (as claimed): through an honest oracle, Encrypt(P) returns no error and
\* a ciphertext that CBCDecrypt under the oracle's key turns back into P.
C2_EncryptSoundness ==
  (Returned("Encrypt") /\ Honest)
    => /\ ret.err = Nil
       /\ CBCDecrypt(oracle.key, ret.val) = [m |-> arg, err |-> Nil]

\* C3: Decrypt of an input shorter than two blocks or not a whole number of
\* blocks returns ErrInvalidCiphertext and an empty plaintext without entering
\* decryptBlock, starting a worker or querying the oracle; Decrypt of any other
\* input never returns ErrInvalidCiphertext.
C3_RejectsMalformed ==
  Returned("Decrypt") =>
    IF Len(arg) < 2 * CipherBlockLen \/ Len(arg) % CipherBlockLen # 0
    THEN /\ ret = [val |-> <<>>, err |-> ErrInvalidCiphertext]
         /\ ~queried
         /\ mi = <<>> /\ workers = EmptyBag /\ wg = 0 /\ taken = 0
    ELSE ret.err # ErrInvalidCiphertext

\* C3 witness: a single block (an IV with nothing after it) has been rejected.
C3_Witness ==
  /\ Returned("Decrypt")
  /\ Len(arg) = CipherBlockLen
  /\ ret.err = ErrInvalidCiphertext

\* C4: once the oracle has returned an error, the engine never moves to
\* another position or block and every live worker belongs to the position of
\* the error; and when the operation returns, it returns one of the errors
\* the oracle returned and no plaintext or ciphertext, whatever successes the
\* sink holds besides.
C4_ErrorPropagation ==
  oerrs # {} =>
    /\ errAt = <<i, p>>
    /\ \A w \in BagToSet(workers) : w.p = p
    /\ \E k \in 1 .. Len(done) : done[k].Err \in oerrs
    /\ pc = "done" => (ret.err \in oerrs /\ ret.val = <<>>)

\* C4 witness: the operation has returned an oracle error from a sink that
\* holds a success written before the error.
C4_Witness ==
  /\ pc = "done"
  /\ ret.err \in OracleErrs
  /\ \E j, k \in 1 .. Len(done) : j < k /\ done[j].Err = Nil /\ done[k].Err # Nil

\* Some worker sends a new query to the oracle in this step.
QueryStarted ==
  \E w \in BagToSet(workers') :
    w.pc = "query" /\ CopiesIn(w, workers') > CopiesIn(w, workers)

\* C5 (as claimed): once a query of the current position has returned valid
\* padding or an error (its result is in the sink), no worker starts a new
\* oracle query for that position.
C5_CancellationReach == [][done # <<>> => ~QueryStarted]_vars

\* C6: at most MaxGoroutines queries are in progress; the live workers are
\* those counted by the WaitGroup, at most MaxGoroutines of them, all of the
\* position the engine is at, exactly MaxGoroutines before the first guess is
\* received, and none once the operation has returned.
C6_WorkerBound ==
  /\ InFlight <= MaxGoroutines
  /\ BagCardinality(workers) <= MaxGoroutines
  /\ wg = BagCardinality(workers)
  /\ \A w \in BagToSet(workers) : w.p = p
  /\ (pc = "pool" /\ taken = 0) => BagCardinality(workers) = MaxGoroutines
  /\ pc # "pool" => workers = EmptyBag

\* C6 witness: MaxGoroutines queries are in progress at once.
C6_Witness == pc = "pool" /\ InFlight = MaxGoroutines

\* C7 (as claimed): through an honest oracle, a second Decrypt of the same
\* ciphertext returns what the first returned, however the workers were
\* scheduled.
C7_Idempotence ==
  (Returned("Decrypt") /\ Honest /\ first # <<>>) => ret = first[1]

\* The byte at Go index k of the full enumeration of the guesses.
AllGuesses == [n \in 1 .. ByteMod |-> n - 1]

\* C8: no query in progress for position CipherBlockLen-1 carries a crafted
\* block whose last byte is prev's last byte, and the guesses still in the
\* channel of a position left of it are the full enumeration 0..255 less the
\* ones already received.
C8_RightmostExclusion ==
  /\ \A w \in BagToSet(workers) :
       (w.pc = "query" /\ w.p = CipherBlockLen - 1)
         => At(w.try, CipherBlockLen - 1) # At(prev, CipherBlockLen - 1)
  /\ (pc = "pool" /\ p < CipherBlockLen - 1)
       => values = SubSeq(AllGuesses, taken + 1, ByteMod)
  /\ (pc = "pool" /\ p = CipherBlockLen - 1)
       => Len(values) + taken = ByteMod - 1

\* C8 witness: at the last position every guess has been received and a
\* query is in progress, and none carried prev's last byte.
C8_Witness ==
  /\ pc = "pool" /\ p = CipherBlockLen - 1
  /\ values = <<>> /\ taken = ByteMod - 1
  /\ InFlight > 0

\* C9: while the pool of position p runs, the positions of mi written so far
\* in this block are exactly p+1 .. CipherBlockLen-1 (so the positions are
\* attacked in the order CipherBlockLen-1, ..., 0), and every live worker,
\* hence every query in progress, is of position p.
C9_RightToLeft ==
  pc = "pool" =>
    /\ written = (p + 1) .. (CipherBlockLen - 1)
    /\ \A w \in BagToSet(workers) :
         w.p = p /\ (w.p + 1) .. (CipherBlockLen - 1) \subseteq written

\* C9 witness: a query for position 0 is in progress with every other
\* position written.
C9_Witness ==
  /\ pc = "pool" /\ p = 0
  /\ written = 1 .. (CipherBlockLen - 1)
  /\ \E w \in BagToSet(workers) : w.pc = "query" /\ w.p = 0

\* C10 (as claimed): through an honest oracle, every byte the engine has
\* stored in mi is the byte of the block-cipher decryption of current at that
\* position.
C10_Intermediate ==
  Honest =>
    \A q \in written : At(mi, q) = At(AESDecrypt(oracle.key, current), q)

\* The guesses reported valid that the sink holds.
Successes == {done[k].Res : k \in {j \in 1 .. Len(done) : done[j].Err = Nil}}

\* The byte of the block-cipher decryption of current at position q.
Inter(q) == At(AESDecrypt(oracle.key, current), q)

\* C11 (as claimed): when two or more guesses have been reported valid at
\* position CipherBlockLen-1, the byte the engine commits there comes from the
\* guess that forces the pad of length 1, the one that a changed
\* prev[CipherBlockLen-2] would still leave valid, not from whichever of them
\* was written last.
C11_Disambiguation ==
  [][(/\ pc = "pool" /\ p = CipherBlockLen - 1
      /\ Honest
      /\ Cardinality(Successes) >= 2
      /\ (CipherBlockLen - 1) \in written')
       => At(mi', CipherBlockLen - 1)
            = Recovered(XOR(Inter(CipherBlockLen - 1), 1), prev, CipherBlockLen - 1)]_vars

\* The guesses of the values channel, as a set.
GuessSpace(prv, pp) ==
  {GuessChannel(prv, pp)[k] : k \in 1 .. Len(GuessChannel(prv, pp))}

\* C12 (as claimed): through an honest oracle, the guess space of position
\* CipherBlockLen-1 holds a guess g, other than prev's last byte, with
\* g XOR I(current)[CipherBlockLen-1] = 1, and the engine never ends with the
\* no-byte-found error at that position.
C12_PadOneGuessKept ==
  (Honest /\ pc # "start" /\ p = CipherBlockLen - 1 /\ current # <<>>) =>
    /\ \E g \in GuessSpace(prev, p) :
         /\ XOR(g, Inter(p)) = 1
         /\ g # At(prev, p)
    /\ ret.err # ErrNoByteFound

\* The guesses g for which the oracle accepts buildPad(p, g, prev, mi) || current.
Accepted ==
  {g \in Bytes : Do(oracle.key, buildPad(p, g, prev, mi) \o current) > 0}

\* The bytes of mi to the right of p are the ones decryptBlock computes from
\* the guesses that gave the pad of their position: mi[q] = I[q] XOR prev[q].
RightOfPCorrect ==
  \A q \in (p + 1) .. (CipherBlockLen - 1) : At(mi, q) = XOR(Inter(q), At(prev, q))

\* C13: at a position p < CipherBlockLen-1 with mi[p+1..] correct, the honest
\* oracle accepts the crafted block for exactly one guess, the g with
\* g XOR I(current)[p] = CipherBlockLen - p, and the sink never holds a
\* success other than that guess.  (The set of accepted guesses depends on
\* oracle, prev, current, mi and p only, which a pool leaves as they are; it
\* is computed in the state the pool starts in.)
C13_UniqueBelowRightmost ==
  (pc = "pool" /\ Honest /\ p < CipherBlockLen - 1 /\ RightOfPCorrect) =>
    /\ taken = 0 => Accepted = {XOR(Inter(p), CipherBlockLen - p)}
    /\ Successes \subseteq {XOR(Inter(p), CipherBlockLen - p)}
    /\ Cardinality(Successes) <= 1

\* C13 witness: at position 0 with mi correct to the right and a prev that is
\* not all zeros, every guess has been received and the accepted one is in the
\* sink.
C13_Witness ==
  /\ pc = "pool" /\ Honest /\ p = 0 /\ RightOfPCorrect
  /\ prev # Zeros(CipherBlockLen)
  /\ values = <<>>
  /\ Successes = {XOR(Inter(p), CipherBlockLen - p)}

\* C14 (as claimed): once ctx has been cancelled, no worker receives another
\* guess from the values channel and no worker starts another oracle query;
\* every worker at its select leaves through the ctx.Done() case.
C14_CancelObservedAtReceive ==
  [][cancelled => (taken' <= taken /\ ~QueryStarted)]_vars

\* The engine's thread takes a step: wg.Wait() has returned and done is read.
SinkRead == pc = "pool" /\ (pc' = "done" \/ i' # i \/ written' # written)

\* mi with position p computed from the success written to done last.
MiFromLast == [mi EXCEPT ![p + 1] = Recovered(done[Len(done)].Res, prev, p)]

\* C15: the engine reads done only when every worker of the position has
\* terminated, so with nothing left to be written; and when done then holds
\* successes and no error, the byte stored at p is the one computed from the
\* success written last, g XOR prev[p] XOR (CipherBlockLen - p).
C15_SinkAfterBarrier ==
  [][SinkRead =>
       /\ workers = EmptyBag /\ wg = 0
       /\ (done # <<>> /\ \A k \in 1 .. Len(done) : done[k].Err = Nil) =>
            IF p > 0 \/ pc' = "done"
            THEN mi' = MiFromLast
            ELSE IF op = "Decrypt"
                 THEN m' = m \o MiFromLast
                 ELSE ct' = BlockXOR(Ti(i), MiFromLast) \o ct]_vars

\* C15 witness: the operation has returned after reading a sink with two
\* different successes, and the byte of the last position attacked is the
\* one of the success written last.
C15_Witness ==
  /\ pc = "done" /\ ret.err = Nil
  /\ workers = EmptyBag
  /\ Len(done) >= 2
  /\ done[1].Res # done[Len(done)].Res
  /\ At(mi, p) = Recovered(done[Len(done)].Res, prev, p)

\* The number of guesses decryptBlock puts into the values channel.
GuessCount(pp) == IF pp = CipherBlockLen - 1 THEN ByteMod - 1 ELSE ByteMod

\* The guesses received from the values channel so far, in order.
Received == SubSeq(GuessChannel(prev, p), 1, taken)

\* C16: the operation ends with the no-byte-found error exactly when done is
\* empty, no query of the position having returned valid padding or an error,
\* and then every guess of the guess space (ByteMod-1 guesses at the last
\* position, ByteMod otherwise) has been received and sent to the oracle.  In
\* the state a pool starts in the channel holds each guess at most once; in
\* every state the guesses received and those still in the channel make up
\* the guess space, and no two workers hold the same guess.
C16_NoByteFoundExact ==
  /\ (pc = "done" /\ (op = "Encrypt" \/ ~InvalidCiphertext(arg))) =>
       /\ ret.err = ErrNoByteFound <=> done = <<>>
       /\ ret.err = ErrNoByteFound =>
            (values = <<>> /\ taken = GuessCount(p) /\ queried)
  /\ (pc = "pool" /\ taken = 0) =>
       /\ Len(values) = GuessCount(p)
       /\ \A j, k \in 1 .. Len(values) : j # k => values[j] # values[k]
  /\ pc = "pool" =>
       /\ Received \o values = GuessChannel(prev, p)
       /\ \A w \in BagToSet(workers) :
            w.pc # "select" =>
              /\ CopiesIn(w, workers) = 1
              /\ \E k \in 1 .. taken : Received[k] = w.g
              /\ \A v \in BagToSet(workers) :
                   (v.pc # "select" /\ v.g = w.g) => v = w

\* C16 witness: a run has ended with the no-byte-found error at the last
\* position after all ByteMod-1 guesses were sent to the oracle.
C16_Witness ==
  /\ pc = "done" /\ ret.err = ErrNoByteFound
  /\ p = CipherBlockLen - 1
  /\ done = <<>> /\ values = <<>> /\ taken = ByteMod - 1

\* C17: mi changes only in a step of the engine (the entry of decryptBlock,
\* which makes it, or the store after wg.Wait()) taken with no live worker;
\* while a worker lives, mi, prev, current and p do not change; and within a
\* block a write goes to position p, which was not written before, and
\* leaves every other entry of mi as it was.
C17_OnlyEngineWritesMi ==
  [][/\ (mi' # mi \/ written' # written) =>
          ((SinkRead \/ pc = "start") /\ workers = EmptyBag)
     /\ workers # EmptyBag => UNCHANGED <<mi, prev, current, p>>
     /\ (pc = "pool" /\ written' # written /\ i' = i) =>
          /\ p \notin written
          /\ written' = written \cup {p}
          /\ \A q \in 0 .. (CipherBlockLen - 1) : q # p => At(mi', q) = At(mi, q)
          /\ UNCHANGED <<prev, current>>
     /\ (pc = "pool" /\ i' # i) => (mi' = Zeros(CipherBlockLen) /\ written' = {})]_vars

\* C17 witness: the workers of position 0 are querying and mi holds the
\* byte written for the last position, a byte that is not zero.
C17_Witness ==
  /\ pc = "pool" /\ p = 0
  /\ (CipherBlockLen - 1) \in written
  /\ At(mi, CipherBlockLen - 1) # 0
  /\ InFlight > 0

(***************************************************************************)
(* buildPad on its own: the pool of any position p, over any prev and mi   *)
(* of PadBlocks and with any part of the guesses already received; the     *)
(* workers receive guesses and call buildPad as in checkValuePad.          *)
(***************************************************************************)
PadBlocks == [1 .. CipherBlockLen -> {0, 1, ByteMod - 1}]

InitBuildPad ==
  /\ oracle = [key |-> Zeros(CipherBlockLen), faulty |-> FALSE]
  /\ op = "Decrypt"
  /\ prev \in PadBlocks
  /\ current = Zeros(CipherBlockLen)
  /\ arg = prev \o current
  /\ pc = "pool"
  /\ i = 1
  /\ m = <<>>
  /\ ct = <<>>
  /\ mi \in PadBlocks
  /\ p \in 0 .. (CipherBlockLen - 1)
  /\ taken \in 0 .. (GuessCount(p) - 1)
  /\ values = SubSeq(GuessChannel(prev, p), taken + 1, GuessCount(p))
  /\ cancelled = FALSE
  /\ done = <<>>
  /\ workers = [w \in {[Idle EXCEPT !.p = p]} |-> MaxGoroutines]
  /\ wg = MaxGoroutines
  /\ ret = NoRet
  /\ queried = FALSE
  /\ written = (p + 1) .. (CipherBlockLen - 1)
  /\ oerrs = {}
  /\ errAt = Nil
  /\ first = <<>>

NextBuildPad == RecvGuess

SpecBuildPad == InitBuildPad /\ [][NextBuildPad]_vars

\* The block buildPad(pp, g, c, mm) is to return, entry by entry.
PadCandidate(pp, g, c, mm) ==
  [q \in 1 .. CipherBlockLen |->
     IF q - 1 > pp THEN XOR(XOR(CipherBlockLen - pp, mm[q]), c[q])
     ELSE IF q - 1 = pp THEN g
     ELSE c[q]]

\* C18: whenever a worker calls buildPad(p, g, prev, mi), with g the guess it
\* received, the block it gets has CipherBlockLen bytes, equal to
\* (CipherBlockLen - p) XOR mi[q] XOR prev[q] right of p, to g at p and to
\* prev[q] left of p; and the call changes neither prev nor mi.
C18_BuildPad ==
  [][\A w \in BagToSet(workers') :
       (w.pc = "query" /\ CopiesIn(w, workers') > CopiesIn(w, workers)) =>
         /\ w.p = p /\ w.g = Head(values)
         /\ Len(w.try) = 2 * CipherBlockLen
         /\ SubSeq(w.try, 1, CipherBlockLen) = PadCandidate(p, w.g, prev, mi)
         /\ SubSeq(w.try, CipherBlockLen + 1, 2 * CipherBlockLen) = current
         /\ UNCHANGED <<prev, mi>>]_vars

\* C18 witness: a candidate built for position 0 with a guess other than
\* prev[0], over a prev and an mi whose last bytes are not zero, carries the
\* crafted byte at the last position.
C18_Witness ==
  \E w \in BagToSet(workers) :
    /\ w.pc = "query" /\ w.p = 0 /\ p = 0
    /\ w.g # At(prev, 0)
    /\ At(mi, CipherBlockLen - 1) # 0 /\ At(prev, CipherBlockLen - 1) # 0
    /\ At(w.try, CipherBlockLen - 1)
         = XOR(XOR(CipherBlockLen, At(mi, CipherBlockLen - 1)),
               At(prev, CipherBlockLen - 1))
    /\ At(w.try, 0) = w.g

\* The number of blocks of Encrypt's padded text.
PaddedBlocks == Len(PCKCS5Pad(arg)) \div CipherBlockLen

\* The engine call in progress fails: done is empty or holds an error.
EngineFails == done = <<>> \/ \E k \in 1 .. Len(done) : done[k].Err # Nil

\* C19: Encrypt starts with c = the zero block and calls the engine with
\* prev = zeros and current = the block it assembled last; the call in
\* progress is the (n - i)th and c holds n - i blocks, the last of them zeros;
\* a call that fails ends Encrypt with the error and no ciphertext; a call
\* that succeeds puts T[i] XOR (engine output) in front of c, whose blocks
\* stay as they are, and after the call for i = 0 Encrypt returns c, n + 1
\* blocks; no other step changes c or i.
C19_EncryptAssembly ==
  [][op = "Encrypt" =>
       /\ pc = "start" =>
            /\ ct' = Zeros(CipherBlockLen)
            /\ i' = PaddedBlocks - 1
            /\ prev' = Zeros(CipherBlockLen) /\ current' = Zeros(CipherBlockLen)
       /\ pc = "pool" =>
            /\ prev = Zeros(CipherBlockLen)
            /\ current = BlockOf(ct, 0)
            /\ Len(ct) = CipherBlockLen * (PaddedBlocks - i)
            /\ BlockOf(ct, PaddedBlocks - i - 1) = Zeros(CipherBlockLen)
            /\ i \in 0 .. (PaddedBlocks - 1)
       /\ (pc = "pool" /\ ~SinkRead) => UNCHANGED <<ct, i, prev, current>>
       /\ (SinkRead /\ EngineFails) =>
            /\ pc' = "done"
            /\ ret'.err # Nil /\ ret'.val = <<>>
       /\ (SinkRead /\ ~EngineFails /\ p > 0) => UNCHANGED <<ct, i, prev, current>>
       /\ (SinkRead /\ ~EngineFails /\ p = 0) =>
            /\ ct' = BlockXOR(BlockOf(PCKCS5Pad(arg), i), MiFromLast) \o ct
            /\ IF i > 0
               THEN /\ pc' = "pool" /\ i' = i - 1
                    /\ prev' = Zeros(CipherBlockLen)
                    /\ current' = BlockOf(ct', 0)
               ELSE /\ pc' = "done"
                    /\ ret' = [val |-> ct', err |-> Nil]
                    /\ Len(ct') = CipherBlockLen * (PaddedBlocks + 1)
                    /\ BlockOf(ct', PaddedBlocks) = Zeros(CipherBlockLen)]_vars

\* C19 witness: Encrypt of a text that pads to two blocks has returned three
\* blocks, the last all zeros and the first not equal to the second.
C19_Witness ==
  /\ Returned("Encrypt") /\ ret.err = Nil
  /\ PaddedBlocks = 2
  /\ Len(ret.val) = 3 * CipherBlockLen
  /\ BlockOf(ret.val, 2) = Zeros(CipherBlockLen)
  /\ BlockOf(ret.val, 0) # BlockOf(ret.val, 1)

\* The goroutines are scheduled and every oracle query returns: a step that
\* can be taken is taken in the end.
SpecLive == Spec /\ WF_vars(Next)

\* The number of live workers that have not written to done.
NotWritten ==
  LET q == {w \in BagToSet(workers) : w.pc # "cancel"}
      RECURSIVE Sum(_)
      Sum(S) == IF S = {} THEN 0
                ELSE LET w == CHOOSE x \in S : TRUE
                     IN  CopiesIn(w, workers) + Sum(S \ {w})
  IN  Sum(q)

\* C20: every operation returns, and every pool ends with all its workers
\* terminated; a worker writes to done at most once, so done holds no more
\* results than there are workers that have written and no more than the
\* guesses received, which stays below the capacity of done: no send to done
\* blocks; and the values channel never holds more than ByteMod guesses.
C20_Termination ==
  /\ <>(pc = "done" /\ workers = EmptyBag /\ wg = 0)
  /\ (pc = "pool" /\ workers # EmptyBag) ~> (workers = EmptyBag /\ wg = 0)
  /\ [](/\ Len(done) + NotWritten <= MaxGoroutines
        /\ Len(done) <= taken
        /\ taken <= GuessCount(p)
        /\ Len(done) < DoneCap
        /\ Len(values) <= ByteMod
        /\ Len(values) <= DoneCap)

\* C20 witness: an operation has returned with every worker of its last pool
\* terminated after each of the MaxGoroutines workers wrote a result.
C20_Witness ==
  /\ pc = "done" /\ ret.err = Nil
  /\ workers = EmptyBag /\ wg = 0
  /\ Len(done) = MaxGoroutines
====
